---- MODULE Spec2Model ----
(***************************************************************************)
(* A model of AnimeWorldDownloader: main.py (the URL-file driver),         *)
(* anime_downloader.py (the per-series pipeline) and                       *)
(* helpers/anime_utils.py (identifier extraction and the URL builder).     *)
(*                                                                         *)
(* Text is a sequence of tokens (a token stands for a run of characters    *)
(* that holds no '/', '?' or '#'; the separators are tokens of their own), *)
(* so that urlparse, strip, split, basename and the f-strings are computed *)
(* and not assumed.  A call's outcome is a                                 *)
(* record: Return(v) or Raise(cls), cls the exception's class name.        *)
(***************************************************************************)
EXTENDS Naturals, Sequences, FiniteSets, TLC

VARIABLES
    file,            \* URLs.txt: the sequence of its lines
    pc,              \* main.main: "read", "loop", "write", "done", "exited", "crashed"
    urls,            \* main.main: the list read_file returned
    idx,             \* process_urls: how many URLs the for loop has taken
    ppc,             \* process_anime_download: the statement it stands at
    url,             \* process_anime_download: its argument
    soup,            \* the parsed listing page
    host_page,       \* extract_anime_id's first result
    anime_id,        \* extract_anime_id's second result
    anime_name,      \* extract_anime_name's result
    download_path,   \* create_download_directory's result
    episode_ids,     \* get_episode_ids's result
    episodes_urls,   \* generate_episodes_urls's result
    web,             \* what the site answers for each episode page URL of the batch
    embed_urls,      \* get_download_links: the list it builds
    fetched,         \* get_download_links: the batch positions its loop has fetched
    download_links,  \* get_download_links's result
    tasks,           \* run_in_parallel: one entry per submitted download_episode call
    exc,             \* the exception in flight (or None), with the stage that raised it
    dirs,            \* the filesystem: directories that exist
    files            \* the filesystem: files written

vars == <<file, pc, urls, idx, ppc, url, soup, host_page, anime_id, anime_name,
          download_path, episode_ids, episodes_urls, web, embed_urls, fetched,
          download_links, tasks, exc, dirs, files>>

mainVars == <<file, pc, urls, idx>>
fsVars == <<dirs, files>>
identVars == <<host_page, anime_id, anime_name>>
resolveVars == <<web, embed_urls, fetched, download_links>>

(***************************************************************************)
(* Bounds of the model.                                                    *)
(***************************************************************************)
MaxUrls == 2        \* lines in URLs.txt
MaxEpisodes == 2    \* episode items in a listing page
MaxWorkers == 2     \* size of run_in_parallel's worker pool

\* Python's None.  Where a text may stand it is a reserved token no text holds;
\* where a tag of the parsed document may stand it is NoTag.
None == <<"<None>">>
NoTag == [py |-> "None"]
NoExc == "none"             \* no exception

Return(v) == [ok |-> TRUE, val |-> v]
Raise(cls) == [ok |-> FALSE, cls |-> cls]

(***************************************************************************)
(* Python's exception classes, as far as the handlers tell them apart.     *)
(***************************************************************************)
Parent(cls) ==
    CASE cls \in {"HTTPError", "ConnectionError", "Timeout"} -> "RequestException"
      [] cls = "RequestException" -> "OSError"
      [] cls \in {"OSError", "ValueError", "AttributeError", "RuntimeError",
                  "TypeError", "IndexError"} -> "Exception"
      [] cls \in {"Exception", "SystemExit"} -> "BaseException"
      [] OTHER -> NoExc

\* isinstance(e, handler), which is what an except clause asks.
RECURSIVE IsInstance(_, _)
IsInstance(cls, handler) ==
    IF cls = NoExc THEN FALSE
    ELSE IF cls = handler THEN TRUE
    ELSE IsInstance(Parent(cls), handler)

(***************************************************************************)
(* Text helpers.                                                           *)
(***************************************************************************)
Range(s) == {s[i] : i \in 1..Len(s)}

\* The first position of s at or after `from` holding a token of `seps`, or Len(s)+1.
RECURSIVE FindFrom(_, _, _)
FindFrom(s, seps, from) ==
    IF from > Len(s) THEN Len(s) + 1
    ELSE IF s[from] \in seps THEN from
    ELSE FindFrom(s, seps, from + 1)

\* str.strip('/')
RECURSIVE LStrip(_, _)
LStrip(s, ch) == IF s # <<>> /\ Head(s) = ch THEN LStrip(Tail(s), ch) ELSE s

RECURSIVE RStrip(_, _)
RStrip(s, ch) ==
    IF s # <<>> /\ s[Len(s)] = ch THEN RStrip(SubSeq(s, 1, Len(s) - 1), ch) ELSE s

Strip(s, ch) == RStrip(LStrip(s, ch), ch)

\* str.split('/'): the pieces between the separators; ''.split('/') is [''].
RECURSIVE Split(_, _)
Split(s, ch) ==
    LET p == FindFrom(s, {ch}, 1)
    IN  IF p > Len(s) THEN <<s>>
        ELSE <<SubSeq(s, 1, p - 1)>> \o Split(SubSeq(s, p + 1, Len(s)), ch)

\* The last position of s holding ch, or 0.
RECURSIVE RFind(_, _, _)
RFind(s, ch, from) ==
    IF from = 0 THEN 0
    ELSE IF s[from] = ch THEN from
    ELSE RFind(s, ch, from - 1)

\* os.path.basename: what follows the last '/'.
os_path_basename(p) == SubSeq(p, RFind(p, "/", Len(p)) + 1, Len(p))

\* os.path.dirname: what precedes the last '/'.
os_path_dirname(p) ==
    LET i == RFind(p, "/", Len(p))
    IN  IF i = 0 THEN <<>> ELSE SubSeq(p, 1, i - 1)

\* os.path.join(a, b) on posix.
os_path_join(a, b) ==
    IF b # <<>> /\ Head(b) = "/" THEN b
    ELSE IF a = <<>> \/ a[Len(a)] = "/" THEN a \o b
    ELSE a \o <<"/">> \o b

\* str(x) inside an f-string.
Format(x) == IF x = None THEN <<"None">> ELSE x

Schemes == {"https:", "http:"}

\* urllib.parse.urlparse: scheme, netloc, path, query.
urlparse(u) ==
    LET hasScheme == u # <<>> /\ Head(u) \in Schemes
        r1 == IF hasScheme THEN Tail(u) ELSE u
        hasNetloc == Len(r1) >= 2 /\ r1[1] = "/" /\ r1[2] = "/"
        r2 == IF hasNetloc THEN SubSeq(r1, 3, Len(r1)) ELSE r1
        e == IF hasNetloc THEN FindFrom(r2, {"/", "?", "#"}, 1) ELSE 1
        r3 == SubSeq(r2, e, Len(r2))
        q == FindFrom(r3, {"?", "#"}, 1)
    IN  [scheme |-> IF hasScheme THEN <<Head(u)>> ELSE <<>>,
         netloc |-> SubSeq(r2, 1, e - 1),
         path |-> SubSeq(r3, 1, q - 1),
         query |-> SubSeq(r3, q + 1, Len(r3))]

(***************************************************************************)
(* helpers/anime_utils.py                                                  *)
(***************************************************************************)
extract_anime_id(u) ==
    LET parsed_url == urlparse(u)
        path_segments == Split(Strip(parsed_url.path, "/"), "/")
    IN  IF Len(path_segments) < 3 THEN Raise("ValueError")
        ELSE LET play_tag == path_segments[1]
                 id == path_segments[2]
             IN  Return([host_page |-> <<"https:", "/", "/">> \o parsed_url.netloc
                                        \o <<"/">> \o play_tag \o <<"/">>,
                         anime_id |-> id])

\* soup.find('h1', {'class': "title", 'data-jtitle': True}): the first such tag or None.
extract_anime_name(page) ==
    LET title_tag == page.title_tag
    IN  IF title_tag = NoTag THEN Raise("ValueError")
        ELSE Return(title_tag.data_jtitle)

\* A variant that takes the first server container, active or not.
get_active_server_container_any(servers) ==
    IF servers = <<>> THEN NoTag ELSE Head(servers)

\* soup.find('div', {'class': "server active"}): the first active container or None.
RECURSIVE get_active_server_container(_)
get_active_server_container(servers) ==
    IF servers = <<>> THEN NoTag
    ELSE IF Head(servers).active THEN Head(servers)
    ELSE get_active_server_container(Tail(servers))

\* tag.get(name): the attribute's value, or None when the tag has none.
TagGet(tag, name) == IF name \in DOMAIN tag THEN tag[name] ELSE None

\* [item.find('a').get('data-id') for item in episode_items]: the first item
\* without an anchor raises AttributeError (None has no get).
RECURSIVE DataIds(_)
DataIds(items) ==
    IF items = <<>> THEN Return(<<>>)
    ELSE IF Head(items).a = NoTag THEN Raise("AttributeError")
    ELSE LET rest == DataIds(Tail(items))
         IN  IF rest.ok
             THEN Return(<<TagGet(Head(items).a, "data_id")>> \o rest.val)
             ELSE rest

get_episode_ids(page) ==
    LET server_container == get_active_server_container(page.servers)
    IN  IF server_container = NoTag
        THEN Raise("AttributeError")     \* None.find_all, re-raised at lines 97-100
        ELSE IF server_container.items = <<>>
        THEN Raise("ValueError")         \* line 93, re-raised at lines 102-103
        ELSE DataIds(server_container.items)

\* A variant whose f-string lost the '/' between series id and episode id.
generate_episodes_urls_no_separator(host, id, ids) ==
    [i \in 1..Len(ids) |-> host \o Format(id) \o Format(ids[i])]

generate_episodes_urls(host, id, ids) ==
    [i \in 1..Len(ids) |-> host \o Format(id) \o <<"/">> \o Format(ids[i])]

(***************************************************************************)
(* anime_downloader.py: the functions without state.                       *)
(***************************************************************************)
DOWNLOAD_FOLDER == <<"Downloads">>

\* A response is what requests.get and raise_for_status make of the network:
\* err is the class of the exception raised, or NoExc with the page served.
fetch_page(resp) ==
    IF IsInstance(resp.err, "RequestException") THEN Raise("SystemExit")
    ELSE Return(resp.page)

\* soup.find('a', {'href': True, 'id': "alternativeDownloadLink"})
process_episode_url(page) ==
    LET item == page.anchor
    IN  IF item = NoTag THEN Raise("ValueError") ELSE Return(item.href)

get_episode_filename(download_link) ==
    IF download_link # None /\ download_link # <<>>
    THEN os_path_basename(urlparse(download_link).path)
    ELSE None

(***************************************************************************)
(* The inputs: the lines URLs.txt may hold, and what the site may answer.  *)
(***************************************************************************)
\* Every sequence over S of length at most n.
RECURSIVE Seqs(_, _)
Seqs(S, n) ==
    IF n = 0 THEN {<<>>}
    ELSE LET shorter == Seqs(S, n - 1)
         IN  shorter \cup {Append(q, x) : q \in shorter, x \in S}

GoodURL == <<"https:", "/", "/", "www.animeworld.so", "/", "play", "/", "naruto.Kx1", "/", "aB3">>
ShortURL == <<"https:", "/", "/", "www.animeworld.so", "/", "play", "/", "naruto.Kx1">>
ListingURLs == {GoodURL, ShortURL}

IdTokens == <<"101", "102", "103", "104", "105", "106">>
EpisodeIds == {<<IdTokens[i]>> : i \in 1..MaxEpisodes}

\* An item's anchor is its attribute dictionary.
Item(id) == [a |-> [data_id |-> id]]
NoAnchorItem == [a |-> NoTag]
NoIdItem == [a |-> [href |-> <<"#">>]]

ItemLists ==
    {q \in Seqs({Item(id) : id \in EpisodeIds}, MaxEpisodes) :
        \A i, j \in 1..Len(q) : i # j => q[i] # q[j]}
    \cup {<<NoAnchorItem>>, <<Item(<<IdTokens[1]>>), NoIdItem>>}

Server(active, items) == [active |-> active, items |-> items]
Decoy == Server(FALSE, <<Item(<<"900">>)>>)

ServerLists ==
    {<<>>, <<Decoy>>} \cup {<<Decoy, Server(TRUE, items)>> : items \in ItemLists}

TitleTags == {NoTag, [data_jtitle |-> <<"Naruto">>], [data_jtitle |-> <<"One Piece">>]}

ListingPages == [title_tag : TitleTags, servers : ServerLists]

NetErrors == {"ConnectionError", "HTTPError"}

Failed(cls) == [err |-> cls]
Served(page) == [err |-> NoExc, page |-> page]

ListingResponses == {Failed(cls) : cls \in NetErrors} \cup {Served(p) : p \in ListingPages}

\* The download link the episode page at u exposes when it exposes one.
LinkOf(u) ==
    <<"https:", "/", "/", "cdn.example", "/", "videos", "/">>
        \o <<u[Len(u)] \o ".mp4", "?", "token=abc">>

EpisodeResponses(u) ==
    {Failed(cls) : cls \in NetErrors}
        \cup {Served([anchor |-> NoTag]), Served([anchor |-> [href |-> LinkOf(u)]])}

Webs(batch) ==
    LET all == UNION {EpisodeResponses(u) : u \in Range(batch)}
    IN  {w \in [Range(batch) -> all] : \A u \in Range(batch) : w[u] \in EpisodeResponses(u)}

NoWeb == <<>>
NoExcInFlight == [cls |-> NoExc, at |-> "none"]

(***************************************************************************)
(* The state after construction: URLs.txt holds some lines, nothing ran.   *)
(***************************************************************************)
LocalsInit ==
    /\ url = None
    /\ soup = NoTag
    /\ host_page = None
    /\ anime_id = None
    /\ anime_name = None
    /\ download_path = None
    /\ episode_ids = <<>>
    /\ episodes_urls = <<>>
    /\ web = NoWeb
    /\ embed_urls = <<>>
    /\ fetched = {}
    /\ download_links = <<>>
    /\ tasks = <<>>
    /\ exc = NoExcInFlight

Init ==
    /\ file \in Seqs(ListingURLs, MaxUrls)
    /\ pc = "read"
    /\ urls = <<>>
    /\ idx = 0
    /\ ppc = "idle"
    /\ LocalsInit
    /\ dirs = {}
    /\ files = {}

\* The locals of process_anime_download go with its frame.
LocalsReset ==
    /\ url' = None
    /\ soup' = NoTag
    /\ host_page' = None
    /\ anime_id' = None
    /\ anime_name' = None
    /\ download_path' = None
    /\ episode_ids' = <<>>
    /\ episodes_urls' = <<>>
    /\ web' = NoWeb
    /\ embed_urls' = <<>>
    /\ fetched' = {}
    /\ download_links' = <<>>
    /\ tasks' = <<>>
    /\ exc' = NoExcInFlight

\* An exception raised at stage `at` of process_anime_download.
Raised(cls, at) ==
    /\ exc' = [cls |-> cls, at |-> at]
    /\ ppc' = "raised"

(***************************************************************************)
(* main.py                                                                 *)
(***************************************************************************)
\* urls = read_file(FILE)
main_read_file ==
    /\ pc = "read"
    /\ urls' = file
    /\ idx' = 0
    /\ pc' = "loop"
    /\ UNCHANGED <<file, ppc, url, soup, identVars, download_path, episode_ids,
                   episodes_urls, resolveVars, tasks, exc, fsVars>>

\* for url in urls: process_anime_download(url)
process_urls_iter ==
    /\ pc = "loop"
    /\ ppc = "idle"
    /\ idx < Len(urls)
    /\ idx' = idx + 1
    /\ url' = urls[idx + 1]
    /\ ppc' = "fetch"
    /\ UNCHANGED <<file, pc, urls, soup, identVars, download_path, episode_ids,
                   episodes_urls, resolveVars, tasks, exc, fsVars>>

\* the for loop is exhausted: process_urls returns
process_urls_return ==
    /\ pc = "loop"
    /\ ppc = "idle"
    /\ idx = Len(urls)
    /\ pc' = "write"
    /\ UNCHANGED <<file, urls, idx, ppc, url, soup, identVars, download_path,
                   episode_ids, episodes_urls, resolveVars, tasks, exc, fsVars>>

\* write_file(FILE): content defaults to '', the file is cleared
main_write_file ==
    /\ pc = "write"
    /\ file' = <<>>
    /\ pc' = "done"
    /\ UNCHANGED <<urls, idx, ppc, url, soup, identVars, download_path, episode_ids,
                   episodes_urls, resolveVars, tasks, exc, fsVars>>

(***************************************************************************)
(* anime_downloader.py: process_anime_download, statement by statement.    *)
(***************************************************************************)
\* soup = fetch_page(url), line 207
pad_fetch_page ==
    /\ ppc = "fetch"
    /\ \E resp \in ListingResponses :
          LET r == fetch_page(resp)
          IN  IF r.ok
              THEN /\ soup' = r.val
                   /\ ppc' = "extract"
                   /\ exc' = exc
              ELSE /\ Raised(r.cls, "fetch")
                   /\ soup' = soup
    /\ UNCHANGED <<mainVars, url, identVars, download_path, episode_ids,
                   episodes_urls, resolveVars, tasks, fsVars>>

\* (host_page, anime_id) = extract_anime_id(url); anime_name = extract_anime_name(soup)
pad_extract ==
    /\ ppc = "extract"
    /\ LET r1 == extract_anime_id(url)
           r2 == extract_anime_name(soup)
       IN  IF ~r1.ok
           THEN /\ Raised(r1.cls, "extract")
                /\ UNCHANGED identVars
           ELSE IF ~r2.ok
           THEN /\ Raised(r2.cls, "extract")
                /\ host_page' = r1.val.host_page
                /\ anime_id' = r1.val.anime_id
                /\ anime_name' = anime_name
           ELSE /\ host_page' = r1.val.host_page
                /\ anime_id' = r1.val.anime_id
                /\ anime_name' = r2.val
                /\ ppc' = "mkdir"
                /\ exc' = exc
    /\ UNCHANGED <<mainVars, url, soup, download_path, episode_ids, episodes_urls,
                   resolveVars, tasks, fsVars>>

\* A variant that returns the path without creating the directory.
create_download_directory_no_makedirs ==
    /\ ppc = "mkdir"
    /\ download_path' = os_path_join(DOWNLOAD_FOLDER, anime_name)
    /\ ppc' = "ids"
    /\ UNCHANGED <<mainVars, url, soup, identVars, episode_ids, episodes_urls,
                   resolveVars, tasks, exc, fsVars>>

\* download_path = create_download_directory(anime_name): os.makedirs succeeds
\* (exist_ok=True) or raises OSError, which is answered by sys.exit(1).
create_download_directory ==
    /\ ppc = "mkdir"
    /\ LET path == os_path_join(DOWNLOAD_FOLDER, anime_name)
       IN  \E makedirs_ok \in BOOLEAN :
              IF makedirs_ok
              THEN /\ dirs' = dirs \cup {DOWNLOAD_FOLDER, path}
                   /\ download_path' = path
                   /\ ppc' = "ids"
                   /\ exc' = exc
              ELSE /\ Raised("SystemExit", "mkdir")
                   /\ UNCHANGED <<dirs, download_path>>
    /\ UNCHANGED <<mainVars, url, soup, identVars, episode_ids, episodes_urls,
                   resolveVars, tasks, files>>

\* episode_ids = get_episode_ids(soup)
pad_get_episode_ids ==
    /\ ppc = "ids"
    /\ LET r == get_episode_ids(soup)
       IN  IF r.ok
           THEN /\ episode_ids' = r.val
                /\ ppc' = "build"
                /\ exc' = exc
           ELSE /\ Raised(r.cls, "ids")
                /\ episode_ids' = episode_ids
    /\ UNCHANGED <<mainVars, url, soup, identVars, download_path, episodes_urls,
                   resolveVars, tasks, fsVars>>

\* episodes_urls = generate_episodes_urls(host_page, anime_id, episode_ids);
\* the site's answers for the batch are fixed from here on.
pad_generate_episodes_urls ==
    /\ ppc = "build"
    /\ LET batch == generate_episodes_urls(host_page, anime_id, episode_ids)
       IN  /\ episodes_urls' = batch
           /\ web' \in Webs(batch)
    /\ ppc' = "resolve"
    /\ UNCHANGED <<mainVars, url, soup, identVars, download_path, episode_ids,
                   embed_urls, fetched, download_links, tasks, exc, fsVars>>

\* A variant of the loop's turn that skips a page without the anchor instead
\* of raising.
get_download_links_iter_skip ==
    /\ ppc = "resolve"
    /\ Cardinality(fetched) < Len(episodes_urls)
    /\ LET i == Cardinality(fetched) + 1
           episode_url == episodes_urls[i]
           r1 == fetch_page(web[episode_url])
           r2 == process_episode_url(r1.val)
       IN  /\ fetched' = fetched \cup {i}
           /\ IF ~r1.ok
              THEN /\ Raised(r1.cls, "resolve")
                   /\ embed_urls' = embed_urls
              ELSE /\ embed_urls' = IF r2.ok THEN Append(embed_urls, r2.val)
                                    ELSE embed_urls
                   /\ UNCHANGED <<ppc, exc>>
    /\ UNCHANGED <<mainVars, url, soup, identVars, download_path, episode_ids,
                   episodes_urls, web, download_links, tasks, fsVars>>

\* get_download_links, one turn of its for loop (lines 78-81)
get_download_links_iter ==
    /\ ppc = "resolve"
    /\ Cardinality(fetched) < Len(episodes_urls)
    /\ LET i == Cardinality(fetched) + 1
           episode_url == episodes_urls[i]
           r1 == fetch_page(web[episode_url])
           r2 == process_episode_url(r1.val)
       IN  /\ fetched' = fetched \cup {i}
           /\ IF ~r1.ok
              THEN /\ Raised(r1.cls, "resolve")
                   /\ embed_urls' = embed_urls
              ELSE IF ~r2.ok
              THEN /\ Raised(r2.cls, "resolve")
                   /\ embed_urls' = embed_urls
              ELSE /\ embed_urls' = Append(embed_urls, r2.val)
                   /\ UNCHANGED <<ppc, exc>>
    /\ UNCHANGED <<mainVars, url, soup, identVars, download_path, episode_ids,
                   episodes_urls, web, download_links, tasks, fsVars>>

\* A variant whose return sits inside the loop: it returns once a link is held.
get_download_links_return_early ==
    /\ ppc = "resolve"
    /\ embed_urls # <<>>
    /\ download_links' = embed_urls
    /\ ppc' = "resolved"
    /\ UNCHANGED <<mainVars, url, soup, identVars, download_path, episode_ids,
                   episodes_urls, web, embed_urls, fetched, tasks, exc, fsVars>>

\* get_download_links, after its loop (lines 83-86)
get_download_links_return ==
    /\ ppc = "resolve"
    /\ Cardinality(fetched) = Len(episodes_urls)
    /\ IF embed_urls = <<>>
       THEN /\ Raised("RuntimeError", "resolve")
            /\ download_links' = download_links
       ELSE /\ download_links' = embed_urls
            /\ ppc' = "resolved"
            /\ exc' = exc
    /\ UNCHANGED <<mainVars, url, soup, identVars, download_path, episode_ids,
                   episodes_urls, web, embed_urls, fetched, tasks, fsVars>>

\* download_anime: run_in_parallel submits one download_episode call per link.
download_anime ==
    /\ ppc = "resolved"
    /\ tasks' = [i \in 1..Len(download_links) |->
                    [link |-> download_links[i], st |-> "pending"]]
    /\ web' = NoWeb
    /\ ppc' = "download"
    /\ UNCHANGED <<mainVars, url, soup, identVars, download_path, episode_ids,
                   episodes_urls, embed_urls, fetched, download_links, exc, fsVars>>

Running == {i \in 1..Len(tasks) : tasks[i].st = "running"}
Pending == {i \in 1..Len(tasks) : tasks[i].st = "pending"}

\* run_in_parallel: a free worker of the pool takes the oldest submitted call.
run_in_parallel_start ==
    /\ ppc = "download"
    /\ Pending # {}
    /\ Cardinality(Running) < MaxWorkers
    /\ LET i == CHOOSE j \in Pending : \A m \in Pending : j <= m
       IN  tasks' = [tasks EXCEPT ![i].st = "running"]
    /\ UNCHANGED <<mainVars, ppc, url, soup, identVars, download_path, episode_ids,
                   episodes_urls, resolveVars, exc, fsVars>>

DownloadResponses == {Failed(cls) : cls \in NetErrors} \cup {[err |-> NoExc]}

\* save_file_with_progress(response, final_path, task_info): the body is
\* streamed to final_path.
save_file_with_progress(final_path) == files' = files \cup {final_path}

\* A variant whose handler is except requests.HTTPError.
download_episode_narrow_handler(i) ==
    /\ ppc = "download"
    /\ tasks[i].st = "running"
    /\ \E resp \in DownloadResponses :
          IF resp.err # NoExc
          THEN /\ tasks' = [tasks EXCEPT ![i].st =
                               IF IsInstance(resp.err, "HTTPError")
                               THEN "failed"
                               ELSE "raised"]
               /\ files' = files
          ELSE LET file_name == get_episode_filename(tasks[i].link)
                   final_path == os_path_join(download_path, file_name)
               IN  /\ save_file_with_progress(final_path)
                   /\ tasks' = [tasks EXCEPT ![i].st = "saved"]
    /\ UNCHANGED <<mainVars, ppc, url, soup, identVars, download_path, episode_ids,
                   episodes_urls, resolveVars, exc, dirs>>

\* download_episode(download_link, download_path, task_info), lines 122-131
download_episode(i) ==
    /\ ppc = "download"
    /\ tasks[i].st = "running"
    /\ \E resp \in DownloadResponses :
          IF resp.err # NoExc
          THEN /\ tasks' = [tasks EXCEPT ![i].st =
                               IF IsInstance(resp.err, "RequestException")
                               THEN "failed"      \* printed at line 131
                               ELSE "raised"]
               /\ files' = files
          ELSE LET file_name == get_episode_filename(tasks[i].link)
                   final_path == os_path_join(download_path, file_name)
               IN  /\ save_file_with_progress(final_path)
                   /\ tasks' = [tasks EXCEPT ![i].st = "saved"]
    /\ UNCHANGED <<mainVars, ppc, url, soup, identVars, download_path, episode_ids,
                   episodes_urls, resolveVars, exc, dirs>>

\* run_in_parallel returns when every submitted call has ended.
download_anime_return ==
    /\ ppc = "download"
    /\ \A i \in 1..Len(tasks) : tasks[i].st \in {"saved", "failed", "raised"}
    /\ ppc' = "downloaded"
    /\ UNCHANGED <<mainVars, url, soup, identVars, download_path, episode_ids,
                   episodes_urls, resolveVars, tasks, exc, fsVars>>

\* process_anime_download returns after line 219.
pad_return ==
    /\ ppc = "downloaded"
    /\ ppc' = "idle"
    /\ LocalsReset
    /\ UNCHANGED <<mainVars, fsVars>>

\* The try block of process_anime_download spans lines 210-219.
InTry(at) == at \in {"extract", "mkdir", "ids", "build", "resolve", "download"}

Handles(e) == InTry(e.at) /\ IsInstance(e.cls, "ValueError")

\* except ValueError as error_value: print(...), lines 221-222
pad_except ==
    /\ ppc = "raised"
    /\ pc = "loop"
    /\ Handles(exc)
    /\ ppc' = "idle"
    /\ LocalsReset
    /\ UNCHANGED <<mainVars, fsVars>>

\* Any other exception leaves process_anime_download, process_urls and main:
\* SystemExit ends the interpreter with status 1, the others with a traceback.
pad_propagate ==
    /\ ppc = "raised"
    /\ pc = "loop"
    /\ ~Handles(exc)
    /\ pc' = IF exc.cls = "SystemExit" THEN "exited" ELSE "crashed"
    /\ UNCHANGED <<file, urls, idx, ppc, url, soup, identVars, download_path,
                   episode_ids, episodes_urls, resolveVars, tasks, exc, fsVars>>

Next ==
    \/ main_read_file
    \/ process_urls_iter
    \/ process_urls_return
    \/ main_write_file
    \/ pad_fetch_page
    \/ pad_extract
    \/ create_download_directory
    \/ pad_get_episode_ids
    \/ pad_generate_episodes_urls
    \/ get_download_links_iter
    \/ get_download_links_return
    \/ download_anime
    \/ run_in_parallel_start
    \/ \E i \in 1..Len(tasks) : download_episode(i)
    \/ download_anime_return
    \/ pad_return
    \/ pad_except
    \/ pad_propagate

Spec == Init /\ [][Next]_vars

(***************************************************************************)
(* The claims.                                                             *)
(***************************************************************************)
Positions == 1..Len(episodes_urls)

\* get_download_links has ended: it returned, or an exception left it.
ResolutionEnded == ppc = "resolved" \/ (ppc = "raised" /\ exc.at = "resolve")

\* The batch positions whose page is served and holds the download anchor.
NonFailing ==
    {i \in Positions : web[episodes_urls[i]].err = NoExc
                        /\ web[episodes_urls[i]].page.anchor # NoTag}

\* C1: when link resolution of a batch has ended, every URL of the batch whose
\* page is served with its download anchor has been fetched and its link is in
\* the list built, whatever the other URLs of the batch did (a batch with one
\* malformed page yields the links of all the others).
C1_SiblingsStillResolved ==
    ResolutionEnded =>
        /\ NonFailing \subseteq fetched
        /\ \A i \in NonFailing :
              web[episodes_urls[i]].page.anchor.href \in Range(embed_urls)
        /\ Len(embed_urls) = Cardinality(NonFailing)

RunEnded == pc \in {"done", "exited", "crashed"}

SetupStages == {"fetch", "extract", "mkdir", "ids"}

\* C2: in URL-file mode a series-level setup error (listing fetch, title,
\* server container, episode items, directory creation) ends only that series:
\* the run never ends on such an error while later URLs of the list are still
\* to be handed to process_anime_download.
C2_LaterSeriesStillProcessed ==
    (RunEnded /\ exc.at \in SetupStages) => idx = Len(urls)

Begun(i) == tasks[i].st # "pending"

C4_DirectoryBeforeWrites ==
    /\ download_path # None =>
          /\ download_path = <<"Downloads", "/">> \o anime_name
          /\ download_path \in dirs
    /\ \A i \in 1..Len(tasks) :
          Begun(i) => download_path # None /\ download_path \in dirs
    /\ \A f \in files : os_path_dirname(f) \in dirs

C4_Witness ==
    /\ \E i \in 1..Len(tasks) : tasks[i].st = "saved"
    /\ \E f \in files : os_path_dirname(f) = download_path

\* C5: no download task begins before link resolution has finished for every
\* episode page URL of the series.
C5_ResolveBeforeDownload ==
    (tasks # <<>>) =>
        /\ fetched = Positions
        /\ Len(download_links) = Len(episodes_urls)
        /\ ppc \in {"download", "downloaded"}

C5_Witness ==
    /\ Len(episodes_urls) >= 2
    /\ \E i \in 1..Len(tasks) : tasks[i].st = "running"

\* C6: a run on a URL file ends with the file empty, and the file is not
\* cleared before the last URL read from it has been processed.
C6_FileClearedAfterRun ==
    /\ RunEnded => file = <<>>
    /\ (pc = "done" /\ urls # <<>>) => (idx = Len(urls) /\ ppc = "idle")

ActiveItems(page) ==
    LET act == {i \in 1..Len(page.servers) : page.servers[i].active}
    IN  IF act = {} THEN <<>>
        ELSE page.servers[CHOOSE i \in act : \A j \in act : i <= j].items

NoEpisodes(page) == ActiveItems(page) = <<>>

IdsReturned == ppc \in {"build", "resolve", "resolved", "download", "downloaded"}
                 \/ (ppc = "raised" /\ exc.at = "resolve")

\* C7: on a listing page with no episode items (or no active server
\* container) get_episode_ids raises the error process_anime_download handles,
\* never another one, and never returns an empty sequence.
C7_NoEpisodesIsHandled ==
    /\ (ppc = "raised" /\ exc.at = "ids" /\ NoEpisodes(soup)) => Handles(exc)
    /\ IdsReturned => episode_ids # <<>>

UrlsBuilt == ppc \in {"resolve", "resolved", "download", "downloaded"}
               \/ (ppc = "raised" /\ exc.at = "resolve")

\* C8: the URL builder returns one URL per episode id, the i-th being
\* host_prefix + series_id + "/" + episode_ids[i], in input order.
C8_UrlsBuiltInOrder ==
    UrlsBuilt =>
        /\ Len(episodes_urls) = Len(episode_ids)
        /\ \A i \in 1..Len(episode_ids) :
              episode_ids[i] # None =>
                 /\ episodes_urls[i] = host_page \o anime_id \o <<"/">> \o episode_ids[i]
                 /\ Len(episodes_urls[i]) =
                        Len(host_page) + Len(anime_id) + 1 + Len(episode_ids[i])

C8_Witness ==
    /\ UrlsBuilt
    /\ Len(episode_ids) >= 2
    /\ episode_ids[1] = <<"102">>
    /\ episodes_urls[2] = <<"https:", "/", "/", "www.animeworld.so", "/", "play", "/",
                            "naruto.Kx1", "/", "101">>

WellFormed(page) ==
    \A i \in 1..Len(ActiveItems(page)) :
        /\ ActiveItems(page)[i].a # NoTag
        /\ "data_id" \in DOMAIN ActiveItems(page)[i].a

\* C9: on a well-formed listing page whose active container holds N >= 1
\* episode items, get_episode_ids returns N identifiers, the i-th being the
\* identifier attribute of the i-th item in document order, and does not raise.
C9_IdsInDocumentOrder ==
    (soup # NoTag /\ WellFormed(soup) /\ Len(ActiveItems(soup)) >= 1) =>
        /\ ~(ppc = "raised" /\ exc.at = "ids")
        /\ IdsReturned =>
              /\ Len(episode_ids) = Len(ActiveItems(soup))
              /\ \A i \in 1..Len(episode_ids) :
                    episode_ids[i] = ActiveItems(soup)[i].a.data_id

C9_Witness ==
    /\ ppc = "build"
    /\ episode_ids = << <<"102">>, <<"101">> >>

\* C10: when get_download_links returns, its result is as long as its input
\* and its i-th element is the link of the page of the i-th URL; the download
\* stage is handed the links in that order.
C10_LinksKeepListingOrder ==
    /\ ppc = "resolved" =>
          /\ Len(download_links) = Len(episodes_urls)
          /\ \A i \in Positions :
                /\ web[episodes_urls[i]].err = NoExc
                /\ web[episodes_urls[i]].page.anchor # NoTag
                /\ download_links[i] = web[episodes_urls[i]].page.anchor.href
    /\ tasks # <<>> =>
          /\ Len(tasks) = Len(episodes_urls)
          /\ \A i \in 1..Len(tasks) : tasks[i].link = LinkOf(episodes_urls[i])

C10_Witness ==
    /\ ppc = "resolved"
    /\ Len(download_links) >= 2
    /\ download_links[1] # download_links[2]
====
